---- MODULE Spec2Model ----
(***************************************************************************)
(* Model of the risk-analysis core of CashFlow (src/agents/risk_agent.py)  *)
(* and of the parts of the request pipeline (src/app.py) and of the        *)
(* MongoDB service (src/services/mongodb_service.py) that it touches.      *)
(*                                                                         *)
(* Python values are tagged records, so that None, a missing dict key, a   *)
(* number, a str and a datetime object stay different values:              *)
(*   None, Missing, Num(v), Str(s), IsoStr(h), DateTime(h).                *)
(* Numbers are integers; means, deviations and z-scores are kept as exact  *)
(* fractions (a z-score as the fraction that is its square), so every      *)
(* comparison the code makes on floats is made here on exact rationals.    *)
(***************************************************************************)
EXTENDS Integers, Sequences, FiniteSets, TLC

VARIABLES
    historical,     \* the rows the provider holds for the user (60-day window)
    transaction,    \* the transaction under analysis (a dict)
    entities,       \* the extracted entities (a dict)
    forest,         \* what IsolationForest fit/predict does on these amounts
    exc,            \* the collaborator whose exception is propagating, or ""
    pc,             \* position of the request / of the call
    window,         \* analyze_transaction's local `historical`
    checks,         \* analyze_transaction's local `checks`
    response,       \* analyze_transaction's `response` dict
    alerts,         \* the alerts collection of the sink
    http,           \* what the HTTP handler answered
    verdicts,       \* what the earlier calls of analyze_transaction returned
    inventory,      \* the quantity in the user's inventory document
    whatsapp,       \* the WhatsApp messages handed to Twilio, in order
    responses,      \* route_to_agents' `responses` dict
    users,          \* the user's document in the users collection
    requests        \* how many times the client has sent the request

\* the state that only the request pipeline uses
pipe == <<inventory, whatsapp, responses, users, requests>>

vars == <<historical, transaction, entities, forest, exc,
          pc, window, checks, response, alerts, http, verdicts, pipe>>

-----------------------------------------------------------------------------
(* Python values *)

None == [t |-> "none"]

Missing == [t |-> "missing"]

Num(v) == [t |-> "num", v |-> v]

Str(s) == [t |-> "str", s |-> s]

\* a str holding an ISO-format timestamp whose hour field is h
IsoStr(h) == [t |-> "str", iso |-> TRUE, hour |-> h]

\* a datetime object (what datetime.utcnow() and pymongo give)
DateTime(h) == [t |-> "datetime", hour |-> h]

IsNum(x) == x.t = "num"

\* dict.get(key, default): the default only when the key is missing
Get(x, default) == IF x.t = "missing" THEN default ELSE x

\* Python truthiness of an item name: None and '' are falsy
Truthy(x) == x.t = "str" /\ x.s # ""

\* str.lower() on the item names of the model
Lower(s) == CASE s = "RICE" -> "rice"
              [] s = "Rice" -> "rice"
              [] s = "DAL"  -> "dal"
              [] OTHER      -> s

Rat(n, d) == [num |-> n, den |-> d]

\* the non-negative number whose square is the fraction n/d
SqrtOf(n, d) == [sqrt_of |-> Rat(n, d)]

Abs(x) == IF x < 0 THEN -x ELSE x

RECURSIVE SumSeq(_)
SumSeq(s) == IF s = <<>> THEN 0 ELSE Head(s) + SumSeq(Tail(s))

RECURSIVE Gcd(_, _)
Gcd(a, b) == IF b = 0 THEN a ELSE Gcd(b, a % b)

\* least common multiple of a sequence of positive integers
RECURSIVE LcmSeq(_)
LcmSeq(s) == IF s = <<>> THEN 1
             ELSE LET l == LcmSeq(Tail(s))
                  IN  (Head(s) * l) \div Gcd(Head(s), l)

\* an except branch that drops the error note
ErrorResult_NoNote(name, e) == [check |-> name, is_anomaly |-> FALSE]

\* an except branch that counts the failure as an anomaly
ErrorResult_Flags(name, e) == [check |-> name, is_anomaly |-> TRUE, error |-> e]

\* the result dict of a detector whose try block raised
ErrorResult(name, e) == [check |-> name, is_anomaly |-> FALSE, error |-> e]

\* the result dict of a detector that had too little to evaluate
PlainResult(name) == [check |-> name, is_anomaly |-> FALSE]

-----------------------------------------------------------------------------
(* Thresholds written in the code *)

MinHistory == 10

MinAmounts == 10

MinQuantities == 10

ZThreshold == 3

MinPrices == 3

-----------------------------------------------------------------------------
(* check_amount_anomaly *)

PositiveAmounts(hist) ==
    LET pos == SelectSeq(hist, LAMBDA txn : txn.amount.v > 0)
    IN  [i \in 1..Len(pos) |-> pos[i].amount.v]

\* n^3 times the population variance of xs, n = Len(xs): with S the sum,
\* sum over i of (n*xs[i] - S)^2.  np.std is the square root of variance.
VarTimesN3(xs) ==
    LET n == Len(xs)
        S == SumSeq(xs)
    IN  SumSeq([i \in 1..n |-> (n * xs[i] - S) * (n * xs[i] - S)])

\* an IsolationForest without random_state: each call draws its own trees
FitPredict_Unseeded(oracle, draw) == draw

\* IsolationForest(contamination=..., random_state=42): the seed is fixed,
\* so the prediction is a function of the data (oracle) and the fresh
\* randomness of the call (draw) has no part in it
FitPredict(oracle, draw) == oracle

check_amount_anomaly(txn, hist, oracle) ==
    IF \E i \in 1..Len(hist) : ~IsNum(hist[i].amount)
    THEN ErrorResult("amount", "TypeError")          \* None > 0
    ELSE LET amounts == PositiveAmounts(hist)
             n == Len(amounts)
         IN  IF n < MinAmounts
             THEN PlainResult("amount")
             ELSE IF oracle = "raise" \/ ~IsNum(txn.amount)
             THEN ErrorResult("amount", "ValueError")  \* fit / predict raised
             ELSE [check |-> "amount",
                   is_anomaly |-> (oracle = "outlier"),  \* prediction[0] == -1
                   value |-> txn.amount,
                   mean |-> Rat(SumSeq(amounts), n),
                   std |-> SqrtOf(VarTimesN3(amounts), n * n * n)]

-----------------------------------------------------------------------------
(* check_quantity_anomaly *)

PositiveQuantities(hist) ==
    LET pos == SelectSeq(hist, LAMBDA txn : Get(txn.quantity, Num(0)).v > 0)
    IN  [i \in 1..Len(pos) |-> pos[i].quantity.v]

check_quantity_anomaly(txn, hist) ==
    IF \E i \in 1..Len(hist) : ~IsNum(Get(hist[i].quantity, Num(0)))
    THEN ErrorResult("quantity", "TypeError")        \* None > 0
    ELSE LET quantities == PositiveQuantities(hist)
             n == Len(quantities)
             S == SumSeq(quantities)                 \* mean_qty = S / n
             V == VarTimesN3(quantities)             \* std_qty^2 = V / n^3
             current_qty == Get(txn.quantity, Num(0))
             d == n * current_qty.v - S              \* n * (current - mean)
         IN  IF n < MinQuantities
             THEN PlainResult("quantity")
             ELSE IF V > 0                           \* std_qty > 0
             THEN IF ~IsNum(current_qty)
                  THEN ErrorResult("quantity", "TypeError")   \* None - float
                  ELSE [check |-> "quantity",
                        \* z = |d/n| / sqrt(V/n^3), so z^2 = n*d^2 / V
                        is_anomaly |-> (n * d * d > ZThreshold * ZThreshold * V),
                        value |-> current_qty,
                        z_score |-> SqrtOf(n * d * d, V)]
             ELSE [check |-> "quantity",
                   is_anomaly |-> FALSE,             \* z_score = 0; 0 > 3
                   value |-> current_qty,
                   z_score |-> Num(0)]

-----------------------------------------------------------------------------
(* check_unusual_timing *)

\* datetime.fromisoformat(x) raises TypeError unless x is a str
FromIsoRaises(x) == ~(x.t = "str" /\ "iso" \in DOMAIN x)

OffHours(h) == h >= 23 \/ h <= 5

\* a detector that reads the hour of datetime values too and looks it up
\* in the rows other than the newest
check_unusual_timing_EarlierRows(txn, hist) ==
    LET txn_hour == txn.created_at.hour
        is_unusual == OffHours(txn_hour)
        never_used == \A i \in 2..Len(hist) : hist[i].created_at.hour # txn_hour
    IN  [check |-> "timing",
         is_anomaly |-> (is_unusual /\ never_used),
         hour |-> txn_hour,
         typical_hours |-> {hist[i].created_at.hour : i \in 1..Len(hist)}]

\* a detector that takes the window to be sorted and looks the hour up in
\* its newest row only
check_unusual_timing_NewestOnly(txn, hist) ==
    IF FromIsoRaises(txn.created_at)
    THEN ErrorResult("timing", "TypeError")
    ELSE IF \E i \in 1..Len(hist) : FromIsoRaises(hist[i].created_at)
    THEN ErrorResult("timing", "TypeError")
    ELSE LET txn_hour == txn.created_at.hour
             historical_hours == [i \in 1..Len(hist) |-> hist[i].created_at.hour]
             is_unusual == OffHours(txn_hour)
             never_used == hist = <<>> \/ historical_hours[1] # txn_hour
         IN  [check |-> "timing",
              is_anomaly |-> (is_unusual /\ never_used),
              hour |-> txn_hour,
              typical_hours |-> {historical_hours[i] : i \in 1..Len(hist)}]

check_unusual_timing(txn, hist) ==
    IF FromIsoRaises(txn.created_at)
    THEN ErrorResult("timing", "TypeError")
    ELSE IF \E i \in 1..Len(hist) : FromIsoRaises(hist[i].created_at)
    THEN ErrorResult("timing", "TypeError")
    ELSE LET txn_hour == txn.created_at.hour
             historical_hours == [i \in 1..Len(hist) |-> hist[i].created_at.hour]
             is_unusual == OffHours(txn_hour)
             never_used == \A i \in 1..Len(hist) : historical_hours[i] # txn_hour
         IN  [check |-> "timing",
              is_anomaly |-> (is_unusual /\ never_used),
              hour |-> txn_hour,
              typical_hours |-> {historical_hours[i] : i \in 1..Len(hist)}]

-----------------------------------------------------------------------------
(* check_price_deviation *)

\* txn.get('item', '').lower() == item.lower(); raises on a None item
SameItem(txn, item) == Lower(Get(txn.item, Str("")).s) = Lower(item.s)

\* the loop body raises: None.lower(), None > 0, or None / qty
PriceLoopRaises(txn, item) ==
    \/ Get(txn.item, Str("")).t # "str"
    \/ /\ SameItem(txn, item)
       /\ \/ ~IsNum(Get(txn.quantity, Num(0)))
          \/ /\ Get(txn.quantity, Num(0)).v > 0
             /\ ~IsNum(Get(txn.amount, Num(0)))

\* the rows that append amt / qty to historical_prices, in window order
PricedRows(hist, item) ==
    SelectSeq(hist, LAMBDA txn : SameItem(txn, item) /\ txn.quantity.v > 0)

\* np.mean(historical_prices) as a fraction: with D a common multiple of
\* the quantities, the sum of amt_i/qty_i is (sum of amt_i * D/qty_i) / D
MeanPrice(rows) ==
    LET m == Len(rows)
        D == LcmSeq([i \in 1..m |-> rows[i].quantity.v])
        N == SumSeq([i \in 1..m |-> rows[i].amount.v * (D \div rows[i].quantity.v)])
    IN  Rat(N, m * D)

check_price_deviation(txn, hist, ents) ==
    LET item == Get(ents.item, None)
    IN
    IF ~Truthy(item)                                 \* if not item
    THEN PlainResult("price")
    ELSE IF \E i \in 1..Len(hist) : PriceLoopRaises(hist[i], item)
    THEN ErrorResult("price", "TypeError")
    ELSE LET rows == PricedRows(hist, item)
             current_qty == Get(ents.quantity, Num(0))
             current_amt == Get(txn.amount, Num(0))
             mean_price == MeanPrice(rows)
             \* (current_price - mean_price) / mean_price
             \*   = (amt * den - qty * num) / (qty * num)
             devNum == Abs(current_amt.v * mean_price.den
                           - current_qty.v * mean_price.num)
             devDen == Abs(current_qty.v * mean_price.num)
         IN  IF Len(rows) < MinPrices
             THEN PlainResult("price")
             ELSE IF current_qty = Num(0)
             THEN PlainResult("price")
             ELSE IF ~IsNum(current_qty) \/ ~IsNum(current_amt)
             THEN ErrorResult("price", "TypeError")  \* amt / None, None / qty
             ELSE IF mean_price.num > 0              \* mean_price > 0
             THEN [check |-> "price",
                   is_anomaly |-> (2 * devNum > devDen),   \* deviation > 0.5
                   current_price |-> Rat(current_amt.v, current_qty.v),
                   mean_price |-> mean_price,
                   deviation_pct |-> Rat(100 * devNum, devDen)]
             ELSE [check |-> "price",
                   is_anomaly |-> FALSE,             \* deviation = 0
                   current_price |-> Rat(current_amt.v, current_qty.v),
                   mean_price |-> mean_price,
                   deviation_pct |-> Num(0)]                \* 0 * 100

-----------------------------------------------------------------------------
(* generate_risk_message *)

\* one clause of the message: the fixed text and the value formatted into it
Clause(check) ==
    CASE check.check = "amount" ->
           [text |-> "Unusual amount: ", arg |-> check.value,
            fmt |-> "rupee sign, .2f"]
      [] check.check = "quantity" ->
           [text |-> "Unusual quantity: ", arg |-> check.value, fmt |-> ""]
      [] check.check = "timing" ->
           [text |-> "Unusual timing: ", arg |-> Num(check.hour), fmt |-> ":00"]
      [] check.check = "price" ->
           [text |-> "Price deviation: ", arg |-> check.deviation_pct, fmt |-> ".1f%"]

\* the clauses put one after the other with nothing between them
Join_NoSeparator(messages) == messages

\* ", ".join(messages): the clauses with a separator between neighbours
RECURSIVE Join(_)
Join(messages) ==
    IF Len(messages) <= 1 THEN messages
    ELSE <<Head(messages), [text |-> ", "]>> \o Join(Tail(messages))

\* the message as the sequence of its pieces, or the one fixed sentence
generate_risk_message(chks) ==
    LET anomalies == SelectSeq(chks, LAMBDA check : check.is_anomaly)
        messages == [i \in 1..Len(anomalies) |-> Clause(anomalies[i])]
    IN  IF anomalies = <<>>
        THEN <<[text |-> "Transaction appears normal"]>>
        ELSE <<[text |-> "Suspicious transaction detected: "]>> \o Join(messages)

-----------------------------------------------------------------------------
(* analyze_transaction, from the fetched window to the returned verdict *)

InitialResponse == [anomaly_detected |-> FALSE, risk_score |-> Rat(0, 1),
                    alerts |-> <<>>]

\* the results listed timing before quantity
RunChecks_Reordered(txn, hist, ents, oracle) ==
    << check_amount_anomaly(txn, hist, oracle),
       check_unusual_timing(txn, hist),
       check_quantity_anomaly(txn, hist),
       check_price_deviation(txn, hist, ents) >>

RunChecks(txn, hist, ents, oracle) ==
    << check_amount_anomaly(txn, hist, oracle),
       check_quantity_anomaly(txn, hist),
       check_unusual_timing(txn, hist),
       check_price_deviation(txn, hist, ents) >>

AnomalyCount(chks) == Len(SelectSeq(chks, LAMBDA check : check.is_anomaly))

\* dividing by the number of detectors that ran without an error
RiskScore_OverSucceeded(chks) ==
    Rat(AnomalyCount(chks),
        Len(SelectSeq(chks, LAMBDA check : "error" \notin DOMAIN check)))

\* anomaly_count / len(checks)
RiskScore(chks) == Rat(AnomalyCount(chks), Len(chks))

\* risk_score >= 0.5
Escalates_AtHalf(score) == 2 * score.num >= score.den

\* risk_score > 0.5
Escalates(score) == 2 * score.num > score.den

\* a gate that lets a window of 9 rows through
PassesGate_OffByOne(hist) == ~(Len(hist) < MinHistory - 1)

\* the window passes the gate (the code returns early when it does not)
PassesGate(hist) == ~(Len(hist) < MinHistory)

\* the explanation generated for every scored call, anomalous or not
Aggregate_AlwaysExplains(chks) ==
    LET score == RiskScore(chks)
    IN  [anomaly_detected |-> Escalates(score), risk_score |-> score,
         alerts |-> <<>>, message |-> generate_risk_message(chks)]

\* the `response` dict after the aggregation and the decision, before the
\* alert call and before 'details' is set
Aggregate(chks) ==
    LET score == RiskScore(chks)
    IN  IF Escalates(score)
        THEN [anomaly_detected |-> TRUE, risk_score |-> score, alerts |-> <<>>,
              message |-> generate_risk_message(chks)]
        ELSE [anomaly_detected |-> FALSE, risk_score |-> score, alerts |-> <<>>]

\* a verdict returned with the details in place of the explanation
WithDetails_DropsMessage(resp, chks) ==
    [k \in (DOMAIN resp \cup {"details"}) \ {"message"} |->
        IF k = "details" THEN chks ELSE resp[k]]

\* response['details'] = checks
WithDetails(resp, chks) ==
    [k \in DOMAIN resp \cup {"details"} |->
        IF k = "details" THEN chks ELSE resp[k]]

\* create_alert called without its severity argument: the default applies
AlertDoc_DefaultSeverity(user_id, alert_type, message, severity) ==
    [user_id |-> user_id, type |-> alert_type, message |-> message,
     severity |-> "medium", read |-> FALSE]

\* MongoDBService.create_alert: the document inserted into alerts
AlertDoc(user_id, alert_type, message, severity) ==
    [user_id |-> user_id, type |-> alert_type, message |-> message,
     severity |-> severity, read |-> FALSE]

-----------------------------------------------------------------------------
(* LiquidityAgent (src/agents/liquidity_agent.py).  A row carries the age of
   its created_at in days as `day`; amounts are whole rupees. *)

\* Config.LIQUIDITY_ALERT_THRESHOLD_DAYS
AlertThresholdDays == 7

\* predict_liquidity_crunch: if len(transactions) < 5
MinLiquidityRows == 5

\* create_liquidity_alert: elif days <= 3
UrgentDays == 3

\* the windows of predict_liquidity_crunch and of get_cash_flow_summary
PredictionWindowDays == 30

CashWindowDays == 90

\* get_transactions_range(user_id, now - days, now)
Within(txns, days) == SelectSeq(txns, LAMBDA txn : txn.day <= days)

\* what one row adds to the flow of its day
SignedAmount(txn) ==
    IF txn.type = "sale" THEN txn.amount.v
    ELSE IF txn.type = "purchase" THEN -txn.amount.v
    ELSE 0

\* get_cash_flow_summary(user_id, days=90)['net_cash_flow']
NetCashFlow(txns) ==
    LET rows == Within(txns, CashWindowDays)
    IN  SumSeq([i \in 1..Len(rows) |-> SignedAmount(rows[i])])

\* the loop of predict_liquidity_crunch raises on a created_at that is not
\* a str and on adding an amount that is None
PredictionLoopRaises(rows) ==
    \E i \in 1..Len(rows) :
        \/ FromIsoRaises(rows[i].created_at)
        \/ rows[i].type \in {"sale", "purchase"} /\ ~IsNum(rows[i].amount)

\* predict_liquidity_crunch(user_id): days_until_crunch is None or a number
predict_liquidity_crunch(txns) ==
    LET rows == Within(txns, PredictionWindowDays)
        flowing == SelectSeq(rows, LAMBDA txn : txn.type \in {"sale", "purchase"})
        dates == {flowing[i].day : i \in 1..Len(flowing)}
        total == SumSeq([i \in 1..Len(flowing) |-> SignedAmount(flowing[i])])
        current_cash == NetCashFlow(txns)
    IN  IF Len(rows) < MinLiquidityRows
        THEN [days_until_crunch |-> None, message |-> "Insufficient data"]
        ELSE IF PredictionLoopRaises(rows)
        THEN [days_until_crunch |-> None, error |-> "TypeError"]
        ELSE IF dates = {}
        \* np.mean([]) is nan: nan >= 0 is False, int(x / nan) raises
        THEN IF current_cash > 0
             THEN [days_until_crunch |-> None, error |-> "ValueError"]
             ELSE [days_until_crunch |-> Num(0), current_cash |-> current_cash]
        \* avg_daily_flow = total / len(dates)
        ELSE IF total >= 0
        THEN [days_until_crunch |-> None, message |-> "Healthy cash flow"]
        ELSE IF current_cash > 0
        \* int(current_cash / abs(avg_daily_flow))
        THEN [days_until_crunch |->
                 Num((current_cash * Cardinality(dates)) \div (-total)),
              current_cash |-> current_cash]
        ELSE [days_until_crunch |-> Num(0), current_cash |-> current_cash]

\* the severity create_liquidity_alert chooses
LiquiditySeverity(days) ==
    IF days = 0 THEN "critical"
    ELSE IF days <= UrgentDays THEN "high"
    ELSE "medium"

\* the dict create_liquidity_alert returns
create_liquidity_alert(prediction) ==
    LET days == prediction.days_until_crunch.v
    IN  [type |-> "liquidity_crunch", message |-> [days |-> days],
         severity |-> LiquiditySeverity(days), days_remaining |-> days]

\* prediction['days_until_crunch'] and
\* prediction['days_until_crunch'] <= self.alert_threshold_days:
\* None and 0 are falsy
CrunchIsNear(prediction) ==
    /\ prediction.days_until_crunch # None
    /\ prediction.days_until_crunch.v # 0
    /\ prediction.days_until_crunch.v <= AlertThresholdDays

\* -entities.get('amount', 0) raises on None
CashImpactRaises(ents) ==
    ents.type = Str("purchase") /\ ~IsNum(Get(ents.amount, Num(0)))

\* response['cash_impact']
CashImpact(ents) ==
    IF ents.type = Str("sale") THEN Get(ents.amount, Num(0))
    ELSE IF ents.type = Str("purchase") THEN Num(-Get(ents.amount, Num(0)).v)
    ELSE Num(0)

\* the dict process_transaction returns
LiquidityResponse(ents, txns) ==
    LET prediction == predict_liquidity_crunch(txns)
    IN  [cash_impact |-> CashImpact(ents),
         alert |-> IF CrunchIsNear(prediction)
                   THEN create_liquidity_alert(prediction)
                   ELSE None]

-----------------------------------------------------------------------------
(* Inputs *)

\* a dict without keys
EmptyDict == [k \in {} |-> None]

\* analyze_transaction or a detector called outside the request pipeline
NoPipeline ==
    /\ inventory = Missing
    /\ whatsapp = <<>>
    /\ responses = EmptyDict
    /\ users = None
    /\ requests = 0

\* longest window the model hands to analyze_transaction
MaxHist == 11

UserId == "u1"

\* MongoDBService.create_transaction: the document built from the entities
TransactionData(ents, created) ==
    [user_id |-> UserId,
     item |-> Get(ents.item, None),
     quantity |-> Get(ents.quantity, Num(0)),
     amount |-> Get(ents.amount, Num(0)),
     created_at |-> created]

Row(item, qty, amt, created) ==
    [user_id |-> UserId, item |-> item, quantity |-> qty, amount |-> amt,
     created_at |-> created]

\* a window of n rows: the newest rows first, then equal older rows
History(n, newest, older) ==
    [i \in 1..n |-> IF i <= Len(newest) THEN newest[i] ELSE older]

WindowSizes == {0} \cup ((MinHistory - 1)..MaxHist)

OlderRows == { Row(Str("rice"), Num(10), Num(100), c) :
                 c \in {IsoStr(9), DateTime(9)} }

NewestRows == OlderRows \cup
    { Row(Str("RICE"), Num(11), Num(110), IsoStr(10)),
      Row(Str("rice"), Num(10), Num(100), IsoStr(2)),
      Row(None, None, Num(50), IsoStr(10)),
      Row(Str("dal"), Num(0), Num(0), IsoStr(10)) }

EntitySets ==
    [item : {Missing, None, Str("rice")},
     quantity : {Missing, None, Num(10), Num(40)},
     amount : {None, Num(100), Num(400), Num(3600)}]

CreatedAts == {IsoStr(2), IsoStr(9), DateTime(2)}

ForestOutcomes == {"inlier", "outlier", "raise"}

-----------------------------------------------------------------------------
(* One request: analyze_transaction called from the HTTP handler *)

Init ==
    /\ \E n \in WindowSizes, newest \in NewestRows, older \in OlderRows :
          historical = History(n, <<newest>>, older)
    /\ entities \in EntitySets
    /\ \E c \in CreatedAts : transaction = TransactionData(entities, c)
    /\ forest \in ForestOutcomes
    /\ exc = ""
    /\ pc = "start"
    /\ window = <<>>
    /\ checks = <<>>
    /\ response = InitialResponse
    /\ alerts = <<>>
    /\ http = [status |-> 0]
    /\ verdicts = <<>>
    /\ NoPipeline

\* historical = await self.db.get_transactions_range(...)
GetTransactionsRange ==
    /\ pc = "start"
    /\ window' = historical
    /\ pc' = "fetched"
    /\ UNCHANGED <<pipe, verdicts, historical, transaction, entities,
                   forest, exc,
                   checks, response, alerts, http>>

\* the provider raises: nothing in analyze_transaction catches it
GetTransactionsRangeRaises ==
    /\ pc = "start"
    /\ exc' = "provider"
    /\ pc' = "raised"
    /\ UNCHANGED <<pipe, verdicts, historical, transaction, entities, forest,
                   window, checks, response, alerts, http>>

\* if len(historical) < 10: return response
GateReturn ==
    /\ pc = "fetched"
    /\ ~PassesGate(window)
    /\ pc' = "returned"
    /\ UNCHANGED <<pipe, verdicts, historical, transaction, entities,
                   forest, exc,
                   window, checks, response, alerts, http>>

\* the checks run after the timestamp of the transaction was rewritten in
\* place as an ISO string
Analyze_RewritesTimestamp ==
    /\ pc = "fetched"
    /\ PassesGate(window)
    /\ transaction' = [transaction EXCEPT
                          !.created_at = IsoStr(transaction.created_at.hour)]
    /\ \E draw \in ForestOutcomes :
          checks' = RunChecks(transaction', window, entities,
                              FitPredict(forest, draw))
    /\ LET resp == Aggregate(checks')
       IN  IF resp.anomaly_detected
           THEN response' = resp /\ pc' = "alert"
           ELSE response' = WithDetails(resp, checks') /\ pc' = "returned"
    /\ UNCHANGED <<pipe, verdicts, historical, entities, forest, exc,
                   window, alerts, http>>

\* the four checks, the aggregation and the decision; without an anomaly
\* the call goes on to set 'details' and return
Analyze ==
    /\ pc = "fetched"
    /\ PassesGate(window)
    /\ \E draw \in ForestOutcomes :
          checks' = RunChecks(transaction, window, entities,
                              FitPredict(forest, draw))
    /\ LET resp == Aggregate(checks')
       IN  IF resp.anomaly_detected
           THEN response' = resp /\ pc' = "alert"
           ELSE response' = WithDetails(resp, checks') /\ pc' = "returned"
    /\ UNCHANGED <<pipe, verdicts, historical, transaction, entities,
                   forest, exc,
                   window, alerts, http>>

\* the anomalous verdict returned with the sink left alone
CreateAlert_NoWrite ==
    /\ pc = "alert"
    /\ response' = WithDetails(response, checks)
    /\ pc' = "returned"
    /\ UNCHANGED <<pipe, verdicts, historical, transaction, entities,
                   forest, exc,
                   window, checks, alerts, http>>

\* a sink that keeps one alert per user and explanation
CreateAlert_Deduplicates ==
    /\ pc = "alert"
    /\ LET doc == AlertDoc(UserId, "fraud_risk", response.message, "high")
       IN  alerts' = IF \E i \in 1..Len(alerts) : alerts[i] = doc
                     THEN alerts
                     ELSE Append(alerts, doc)
    /\ response' = WithDetails(response, checks)
    /\ pc' = "returned"
    /\ UNCHANGED <<pipe, verdicts, historical, transaction, entities,
                   forest, exc,
                   window, checks, http>>

\* await self.db.create_alert(user_id, 'fraud_risk', message, 'high'),
\* then response['details'] = checks; return response
CreateAlert ==
    /\ pc = "alert"
    /\ alerts' = Append(alerts, AlertDoc(UserId, "fraud_risk",
                                         response.message, "high"))
    /\ response' = WithDetails(response, checks)
    /\ pc' = "returned"
    /\ UNCHANGED <<pipe, verdicts, historical, transaction, entities,
                   forest, exc,
                   window, checks, http>>

\* the sink raises: nothing in analyze_transaction catches it
CreateAlertRaises ==
    /\ pc = "alert"
    /\ exc' = "sink"
    /\ pc' = "raised"
    /\ UNCHANGED <<pipe, verdicts, historical, transaction, entities, forest,
                   window, checks, response, alerts, http>>

\* is_anomaly is a numpy.bool_ when it comes from a comparison on numpy
\* values: prediction[0] == -1, z_score > 3 with z_score computed from the
\* numpy mean and std, deviation > 0.5 with deviation computed from np.mean
HoldsNumpyBool(check) ==
    \/ check.check = "amount" /\ "value" \in DOMAIN check
    \/ "z_score" \in DOMAIN check /\ check.z_score # Num(0)
    \/ "deviation_pct" \in DOMAIN check /\ check.deviation_pct # Num(0)

\* jsonify serialises bool, int, float (numpy.float64 is a float), str,
\* list and dict; it raises TypeError on a numpy.bool_
Serializable(resp) ==
    "details" \in DOMAIN resp =>
        \A i \in DOMAIN resp.details : ~HoldsNumpyBool(resp.details[i])

\* create_manual_transaction: the jsonify of the agents' responses
HttpRespond ==
    /\ pc = "returned"
    /\ http' = IF Serializable(response)
               THEN [status |-> 200, risk |-> response]
               ELSE [status |-> 500, error |-> "TypeError"]
    /\ pc' = "responded"
    /\ UNCHANGED <<pipe, verdicts, historical, transaction, entities,
                   forest, exc,
                   window, checks, response, alerts>>

\* an except branch that answers 200 with the untouched response
HttpError_Swallowed ==
    /\ pc = "raised"
    /\ http' = [status |-> 200, risk |-> response]
    /\ pc' = "responded"
    /\ UNCHANGED <<pipe, verdicts, historical, transaction, entities,
                   forest, exc,
                   window, checks, response, alerts>>

\* an except branch that deletes the transaction the request stored
HttpError_RollsBack ==
    /\ pc = "raised"
    /\ http' = [status |-> 500, error |-> exc]
    /\ historical' = Tail(historical)
    /\ pc' = "responded"
    /\ UNCHANGED <<pipe, verdicts, transaction, entities,
                   forest, exc,
                   window, checks, response, alerts>>

\* create_manual_transaction: except Exception as e
HttpError ==
    /\ pc = "raised"
    /\ http' = [status |-> 500, error |-> exc]
    /\ pc' = "responded"
    /\ UNCHANGED <<pipe, verdicts, historical, transaction, entities,
                   forest, exc,
                   window, checks, response, alerts>>

Next == \/ GetTransactionsRange
        \/ GetTransactionsRangeRaises
        \/ GateReturn
        \/ Analyze
        \/ CreateAlert
        \/ CreateAlertRaises
        \/ HttpRespond
        \/ HttpError

Spec == Init /\ [][Next]_vars

-----------------------------------------------------------------------------
(* The same agent called again with the same transaction, entities and
   window: the sink keeps the alerts of the earlier calls *)

\* calls of analyze_transaction in one run
MaxCalls == 2

\* the caller keeps the verdict and calls analyze_transaction again: the
\* locals of the new call are fresh, self.db is the same sink
CallAgain ==
    /\ pc = "returned"
    /\ Len(verdicts) < MaxCalls - 1
    /\ verdicts' = Append(verdicts, response)
    /\ pc' = "start"
    /\ window' = <<>>
    /\ checks' = <<>>
    /\ response' = InitialResponse
    /\ UNCHANGED <<pipe, historical, transaction, entities, forest, exc,
                   alerts, http>>

NextCalls == \/ Next
             \/ CallAgain

SpecCalls == Init /\ [][NextCalls]_vars

-----------------------------------------------------------------------------
(* The detectors called on their own, on inputs of their own *)

\* the variables a detector call does not use
Idle ==
    /\ forest = "inlier"
    /\ exc = ""
    /\ window = <<>>
    /\ checks = <<>>
    /\ response = InitialResponse
    /\ alerts = <<>>
    /\ http = [status |-> 0]
    /\ verdicts = <<>>
    /\ NoPipeline

\* a row that differs from the usual one only in its timestamp
StampedRow(c) == Row(Str("rice"), Num(10), Num(100), c)

\* longest window of the timing runs
MaxTimingRows == 3

HistoryStamps == {IsoStr(h) : h \in {0, 2, 5, 6, 9, 22, 23}} \cup {DateTime(9)}

CurrentStamps == {IsoStr(h) : h \in 0..23} \cup {DateTime(2), DateTime(9)}

InitTiming ==
    /\ \E n \in 0..MaxTimingRows, a \in HistoryStamps, b \in HistoryStamps :
          historical = History(n, <<StampedRow(a)>>, StampedRow(b))
    /\ entities = [item |-> Str("rice"), quantity |-> Num(10), amount |-> Num(100)]
    /\ \E c \in CurrentStamps : transaction = TransactionData(entities, c)
    /\ pc = "call_timing"
    /\ Idle

ApplyTiming ==
    /\ pc = "call_timing"
    /\ checks' = <<check_unusual_timing(transaction, historical)>>
    /\ pc' = "done_timing"
    /\ UNCHANGED <<pipe, verdicts, historical, transaction, entities,
                   forest, exc,
                   window, response, alerts, http>>

NextTiming == ApplyTiming

SpecTiming == InitTiming /\ [][NextTiming]_vars

\* a row that differs from the usual one only in its quantity
QuantityRow(q) == Row(Str("rice"), q, Num(100), IsoStr(9))

\* largest current quantity of the quantity runs
MaxQuantity == 20

InitQuantity ==
    /\ \E n \in 0..MaxHist,
          a \in {None, Num(0), Num(10), Num(11), Num(13)},
          b \in {None, Num(0), Num(10), Num(11)},
          c \in {None, Num(0), Num(10)} :
          historical = History(n, <<QuantityRow(a), QuantityRow(b)>>,
                               QuantityRow(c))
    /\ \E q \in {Missing, None} \cup {Num(v) : v \in 0..MaxQuantity} :
          entities = [item |-> Str("rice"), quantity |-> q, amount |-> Num(100)]
    /\ transaction = TransactionData(entities, IsoStr(9))
    /\ pc = "call_quantity"
    /\ Idle

ApplyQuantity ==
    /\ pc = "call_quantity"
    /\ checks' = <<check_quantity_anomaly(transaction, historical)>>
    /\ pc' = "done_quantity"
    /\ UNCHANGED <<pipe, verdicts, historical, transaction, entities,
                   forest, exc,
                   window, response, alerts, http>>

NextQuantity == ApplyQuantity

SpecQuantity == InitQuantity /\ [][NextQuantity]_vars

\* longest window of the price runs
MaxPriceRows == 4

PriceRows ==
    { Row(i, q, a, IsoStr(9)) :
        i \in {Str("rice"), Str("RICE"), Str("dal"), None},
        q \in {None, Num(0), Num(1), Num(2)},
        a \in {None, Num(10), Num(30)} }

OlderPriceRows ==
    { Row(Str("rice"), Num(1), Num(10), IsoStr(9)),
      Row(Str("rice"), Num(2), Num(20), IsoStr(9)),
      Row(Str("dal"), Num(1), Num(10), IsoStr(9)) }

PriceEntities ==
    [item : {Missing, None, Str(""), Str("rice"), Str("Rice")},
     quantity : {Missing, None, Num(0), Num(-1), Num(1), Num(2)},
     amount : {None, Num(10), Num(15), Num(16), Num(30)}]

InitPrice ==
    /\ \E n \in 0..MaxPriceRows, a \in PriceRows, b \in OlderPriceRows :
          historical = History(n, <<a>>, b)
    /\ entities \in PriceEntities
    /\ transaction = TransactionData(entities, IsoStr(9))
    /\ pc = "call_price"
    /\ Idle

ApplyPrice ==
    /\ pc = "call_price"
    /\ checks' = <<check_price_deviation(transaction, historical, entities)>>
    /\ pc' = "done_price"
    /\ UNCHANGED <<pipe, verdicts, historical, transaction, entities,
                   forest, exc,
                   window, response, alerts, http>>

NextPrice == ApplyPrice

SpecPrice == InitPrice /\ [][NextPrice]_vars

-----------------------------------------------------------------------------
(* Two users' requests served at the same time.  Here every variable of a
   request is a function of the user; the alerts collection is the one
   collection all requests write to. *)

Users == {"A", "B"}

\* the row or transaction as stored for user u
OwnedBy(u, doc) == [doc EXCEPT !.user_id = u]

\* every request on one event loop kept for the whole application
LoopOf_Shared(u) == "main"

\* async_route: asyncio.run(f(...)) starts an event loop of its own for
\* each request, in the thread that serves the request
LoopOf(u) == u

\* the steps of a request during which its coroutine is inside a blocking
\* call: create_alert runs pymongo's insert_one without awaiting anything
Blocking == {"alert"}

\* a request can take a step unless another request on the same event loop
\* is inside a blocking call
Runnable(u) ==
    \A v \in Users \ {u} : LoopOf(v) = LoopOf(u) => pc[v] \notin Blocking

UserEntities ==
    { [item |-> Str("rice"), quantity |-> Num(40), amount |-> Num(3600)],
      [item |-> Str("rice"), quantity |-> Num(10), amount |-> Num(100)] }

\* three sales of rice at 10 a unit; the older rows of a user's window are
\* payments without a quantity
UserNewest ==
    [i \in 1..3 |-> Row(Str("rice"), Num(10), Num(100), IsoStr(9))]

InitUsers ==
    /\ historical \in [Users -> { History(n, UserNewest,
                                            Row(Str("dal"), Num(0), Num(100),
                                                IsoStr(9))) :
                                    n \in {MinHistory - 1, MinHistory} }]
    /\ entities \in [Users -> UserEntities]
    /\ transaction = [u \in Users |->
                         OwnedBy(u, TransactionData(entities[u], IsoStr(2)))]
    /\ forest \in [Users -> {"inlier", "outlier"}]
    /\ exc = [u \in Users |-> ""]
    /\ pc = [u \in Users |-> "start"]
    /\ window = [u \in Users |-> <<>>]
    /\ checks = [u \in Users |-> <<>>]
    /\ response = [u \in Users |-> InitialResponse]
    /\ alerts = <<>>
    /\ http = [status |-> 0]
    /\ verdicts = <<>>
    /\ NoPipeline

\* get_transactions_range(user_id, ...): the rows of this user
UserFetch(u) ==
    /\ pc[u] = "start"
    /\ Runnable(u)
    /\ window' = [window EXCEPT ![u] =
                     [i \in DOMAIN historical[u] |-> OwnedBy(u, historical[u][i])]]
    /\ pc' = [pc EXCEPT ![u] = "fetched"]
    /\ UNCHANGED <<pipe, verdicts, historical, transaction, entities,
                   forest, exc,
                   checks, response, alerts, http>>

UserGateReturn(u) ==
    /\ pc[u] = "fetched"
    /\ Runnable(u)
    /\ ~PassesGate(window[u])
    /\ pc' = [pc EXCEPT ![u] = "returned"]
    /\ UNCHANGED <<pipe, verdicts, historical, transaction, entities,
                   forest, exc,
                   window, checks, response, alerts, http>>

UserAnalyze(u) ==
    /\ pc[u] = "fetched"
    /\ Runnable(u)
    /\ PassesGate(window[u])
    /\ \E draw \in ForestOutcomes :
          LET chks == RunChecks(transaction[u], window[u], entities[u],
                                FitPredict(forest[u], draw))
              resp == Aggregate(chks)
          IN  /\ checks' = [checks EXCEPT ![u] = chks]
              /\ response' = [response EXCEPT ![u] =
                                 IF resp.anomaly_detected THEN resp
                                 ELSE WithDetails(resp, chks)]
              /\ pc' = [pc EXCEPT ![u] =
                           IF resp.anomaly_detected THEN "alert"
                           ELSE "returned"]
    /\ UNCHANGED <<pipe, verdicts, historical, transaction, entities,
                   forest, exc,
                   window, alerts, http>>

\* insert_one returns: the alert is in the collection, the call goes on to
\* set 'details' and return
UserCreateAlert(u) ==
    /\ pc[u] = "alert"
    /\ Runnable(u)
    /\ alerts' = Append(alerts, AlertDoc(u, "fraud_risk",
                                         response[u].message, "high"))
    /\ response' = [response EXCEPT ![u] = WithDetails(response[u], checks[u])]
    /\ pc' = [pc EXCEPT ![u] = "returned"]
    /\ UNCHANGED <<pipe, verdicts, historical, transaction, entities,
                   forest, exc,
                   window, checks, http>>

UserNext(u) == \/ UserFetch(u)
               \/ UserGateReturn(u)
               \/ UserAnalyze(u)
               \/ UserCreateAlert(u)

NextUsers == \E u \in Users : UserNext(u)

SpecUsers == InitUsers /\ [][NextUsers]_vars

-----------------------------------------------------------------------------
(* The same rows handed over in two orders *)

\* the window with the rows at i and j exchanged
Swap(hist, i, j) ==
    [k \in DOMAIN hist |->
        IF k = i THEN hist[j] ELSE IF k = j THEN hist[i] ELSE hist[k]]

\* rows that differ in what each detector reads
OrderRows ==
    { Row(Str("rice"), Num(10), Num(100), IsoStr(9)),
      Row(Str("rice"), Num(20), Num(200), IsoStr(2)),
      Row(Str("RICE"), Num(5), Num(150), IsoStr(10)),
      Row(None, None, Num(50), IsoStr(10)),
      Row(Str("rice"), Num(10), Num(100), DateTime(9)),
      Row(Str("dal"), Num(0), Num(0), IsoStr(23)) }

OrderSizes == {2, 3, MinHistory - 1, MinHistory, MaxHist}

\* historical holds the rows in one order, window the same rows in another
InitOrder ==
    /\ \E n \in OrderSizes, a \in OrderRows, b \in OrderRows :
          /\ historical = History(n, <<a, b>>, Row(Str("rice"), Num(10),
                                                   Num(100), IsoStr(9)))
          /\ \E i \in 1..n, j \in 1..n : window = Swap(historical, i, j)
    /\ \E q \in {Num(10), Num(40)}, amt \in {Num(100), Num(3600)} :
          entities = [item |-> Str("rice"), quantity |-> q, amount |-> amt]
    /\ \E c \in {IsoStr(2), IsoStr(9)} :
          transaction = TransactionData(entities, c)
    /\ pc = "call_order"
    /\ forest = "inlier"
    /\ exc = ""
    /\ checks = <<>>
    /\ response = InitialResponse
    /\ alerts = <<>>
    /\ http = [status |-> 0]
    /\ verdicts = <<>>
    /\ NoPipeline

\* the quantity, timing and price detectors on the rows in the one order,
\* then in the other
ApplyOrder ==
    /\ pc = "call_order"
    /\ checks' = << check_quantity_anomaly(transaction, historical),
                    check_unusual_timing(transaction, historical),
                    check_price_deviation(transaction, historical, entities),
                    check_quantity_anomaly(transaction, window),
                    check_unusual_timing(transaction, window),
                    check_price_deviation(transaction, window, entities) >>
    /\ pc' = "done_order"
    /\ UNCHANGED <<pipe, verdicts, historical, transaction, entities,
                   forest, exc,
                   window, response, alerts, http>>

NextOrder == ApplyOrder

SpecOrder == InitOrder /\ [][NextOrder]_vars

-----------------------------------------------------------------------------
(* Properties of analyze_transaction *)

\* the positions of the detectors that flagged
FlaggedSet == {i \in DOMAIN checks : checks[i].is_anomaly}

\* the detectors have run in this call
Scored == checks # <<>> /\ pc \in {"alert", "returned", "raised", "responded"}

\* C1: once the gate is passed, anomaly_detected holds exactly when
\* risk_score > 0.5, which holds exactly when at least 3 of the 4 detectors
\* flagged; with exactly 2 flagged the score is 0.5 and anomaly_detected is
\* not set.
C1_MajorityRule ==
    Scored =>
        /\ response.anomaly_detected
             <=> (10 * response.risk_score.num > 5 * response.risk_score.den)
        /\ response.anomaly_detected <=> (Cardinality(FlaggedSet) >= 3)
        /\ Cardinality(FlaggedSet) = 2 =>
             /\ ~response.anomaly_detected
             /\ 2 * response.risk_score.num = response.risk_score.den

C1_Witness ==
    /\ pc = "returned"
    /\ Cardinality(FlaggedSet) = 2
    /\ ~response.anomaly_detected
    /\ response.details = checks

\* C2: the returned risk_score is k/4 with k the number of flagged detectors;
\* the denominator is 4 whenever the detectors ran, also when some of them
\* failed or lacked data, and the score lies in [0, 1].
C2_ScoreIsQuarters ==
    LET k == Cardinality(FlaggedSet)
        score == response.risk_score
    IN  /\ k \in 0..4
        /\ score.den > 0
        /\ 4 * score.num = k * score.den
        /\ 0 <= score.num /\ score.num <= score.den
        /\ Scored => score.den = 4 /\ Len(checks) = 4

C2_Witness ==
    /\ pc = "returned"
    /\ Cardinality(FlaggedSet) = 1
    /\ response.risk_score = Rat(1, 4)
    /\ \E i \in DOMAIN checks : "error" \in DOMAIN checks[i]
    /\ \E i \in DOMAIN checks : DOMAIN checks[i] = {"check", "is_anomaly"}

\* C3: a window of fewer than 10 rows (also of none) runs no detector,
\* returns risk_score 0 and anomaly_detected false whatever the transaction
\* and the entities are, and stores no alert.
C3_GateShortCircuit ==
    (Len(historical) < 10) =>
        /\ checks = <<>>
        /\ alerts = <<>>
        /\ pc # "alert"
        /\ response.risk_score.num = 0
        /\ ~response.anomaly_detected
        /\ "details" \notin DOMAIN response
        /\ pc = "responded" /\ exc = "" =>
              http = [status |-> 200, risk |-> InitialResponse]

C3_Witness ==
    /\ pc = "responded"
    /\ Len(window) = 9
    /\ transaction.quantity = Num(40)
    /\ transaction.amount = Num(3600)
    /\ http.status = 200
    /\ http.risk.risk_score.num = 0

\* C4: a call stores exactly one alert when its verdict has anomaly_detected
\* true, of type 'fraud_risk', severity 'high' and with the verdict's
\* explanation as message; it stores none when anomaly_detected is false.
C4_OneAlertPerAnomaly ==
    pc \in {"returned", "responded"} /\ exc = "" =>
        IF response.anomaly_detected
        THEN /\ Len(alerts) = 1
             /\ alerts[1].type = "fraud_risk"
             /\ alerts[1].severity = "high"
             /\ alerts[1].message = response.message
             /\ alerts[1].user_id = UserId
        ELSE alerts = <<>>

C4_Witness ==
    /\ pc = "returned"
    /\ response.anomaly_detected
    /\ Len(alerts) = 1
    /\ Cardinality(FlaggedSet) = 3

\* the inputs on which a detector's try block raises
AmountFails ==
    \/ \E i \in DOMAIN window : window[i].amount = None
    \/ /\ Cardinality({i \in DOMAIN window : window[i].amount.v > 0}) >= 10
       /\ forest = "raise" \/ transaction.amount = None

QuantityFails == \E i \in DOMAIN window : window[i].quantity = None

TimingFails ==
    \/ transaction.created_at.t = "datetime"
    \/ \E i \in DOMAIN window : window[i].created_at.t = "datetime"

Failed(i) == "error" \in DOMAIN checks[i] /\ ~checks[i].is_anomaly

\* C5: a failure inside one detector does not abort the call: that detector
\* gives a result with is_anomaly false and an error note, the others still
\* run, and the result list holds all four results.
C5_DetectorFailureAbsorbed ==
    /\ exc \in {"", "provider", "sink"}
    /\ Scored =>
        /\ Len(checks) = 4
        /\ <<checks[1].check, checks[2].check, checks[3].check, checks[4].check>>
             = <<"amount", "quantity", "timing", "price">>
        /\ \A i \in 1..4 : checks[i].is_anomaly \in BOOLEAN
        /\ \A i \in 1..4 : "error" \in DOMAIN checks[i] => ~checks[i].is_anomaly
        /\ AmountFails => Failed(1)
        /\ QuantityFails => Failed(2)
        /\ TimingFails => Failed(3)

C5_Witness ==
    /\ pc = "returned"
    /\ Scored
    /\ TimingFails
    /\ Failed(3)
    /\ FlaggedSet = {1, 2, 4}

\* C10: when the provider or the sink raises, the call returns no verdict:
\* the exception propagates and the HTTP request answers with an error, not
\* with a response that holds a verdict.
C10_CollaboratorFailurePropagates ==
    /\ exc # "" => pc \in {"raised", "responded"}
    /\ pc = "raised" => exc \in {"provider", "sink"}
    /\ pc = "responded" /\ exc # "" =>
          /\ http.status = 500
          /\ "error" \in DOMAIN http
          /\ "risk" \notin DOMAIN http
    /\ http.status = 200 => exc = ""

C10_Witness ==
    /\ pc = "responded"
    /\ exc = "sink"
    /\ http.status = 500
    /\ alerts = <<>>

-----------------------------------------------------------------------------
(* Properties of the detectors *)

\* C6: the timing detector flags exactly when the hour of the transaction
\* is off-hours (hour >= 23 or hour <= 5) and no row of the window has that
\* hour.
C6_TimingIffOffHoursAndUnseen ==
    pc = "done_timing" =>
        LET hour == transaction.created_at.hour
            seen == {historical[i].created_at.hour : i \in DOMAIN historical}
        IN  checks[1].is_anomaly <=> ((hour >= 23 \/ hour <= 5) /\ hour \notin seen)

\* the positive quantities of the window, as the claim counts them
PositiveQuantityRows ==
    SelectSeq(historical, LAMBDA r : r.quantity.t = "num" /\ r.quantity.v > 0)

\* C7: with at least 10 positive historical quantities the quantity
\* detector flags exactly when |current - mean| / std > 3, a standard
\* deviation of 0 giving z = 0, no flag and no failure.
C7_QuantityIffZAboveThree ==
    (/\ pc = "done_quantity"
     /\ Len(PositiveQuantityRows) >= 10
     /\ transaction.quantity.t = "num") =>
        LET xs == [i \in 1..Len(PositiveQuantityRows) |->
                      PositiveQuantityRows[i].quantity.v]
            n == Len(xs)
            S == SumSeq(xs)
            SS == SumSeq([i \in 1..n |-> xs[i] * xs[i]])
            c == transaction.quantity.v
            \* variance = (n*SS - S^2) / n^2, (c - mean)^2 = (n*c - S)^2 / n^2
            zAbove3 == /\ n * SS - S * S > 0
                       /\ (n * c - S) * (n * c - S) > 9 * (n * SS - S * S)
        IN  checks[1].is_anomaly <=> zAbove3

\* the rows of the current item with a positive quantity, as the claim
\* counts them
ItemRows ==
    SelectSeq(historical,
              LAMBDA r : /\ r.item.t = "str"
                         /\ Lower(r.item.s) = Lower(entities.item.s)
                         /\ r.quantity.t = "num" /\ r.quantity.v > 0)

ItemPresent == entities.item.t = "str" /\ entities.item.s # ""

\* C8: when the preconditions hold, the price detector flags exactly when
\* |current_price - mean_price| / mean_price > 0.5, the mean taken over the
\* rows of the same item (case ignored) with a positive quantity, and the
\* deviation being 0 for a mean of 0; rows of other items have no influence.
C8_PriceIffDeviationAboveHalf ==
    (/\ pc = "done_price"
     /\ ItemPresent
     /\ entities.quantity.t = "num" /\ entities.quantity.v > 0
     /\ transaction.amount.t = "num"
     /\ Len(ItemRows) >= 3
     /\ \A i \in 1..Len(ItemRows) : ItemRows[i].amount.t = "num") =>
        LET mean == MeanPrice(ItemRows)
            A == transaction.amount.v
            Q == entities.quantity.v
        IN  checks[1].is_anomaly <=>
               /\ mean.num > 0
               /\ 2 * Abs(A * mean.den - Q * mean.num) > Q * mean.num

\* C9: the price detector does not flag when a precondition fails: no item
\* name, a current quantity that is not greater than 0 (zero, negative or
\* missing), or fewer than 3 rows of the item with a positive quantity.
C9_PriceFalseWithoutPreconditions ==
    (/\ pc = "done_price"
     /\ \/ ~ItemPresent
        \/ entities.quantity.t # "num"
        \/ entities.quantity.v <= 0
        \/ Len(ItemRows) < 3) => ~checks[1].is_anomaly

-----------------------------------------------------------------------------
(* Repeated calls *)

\* C11: a call of analyze_transaction with the same transaction, entities
\* and window as an earlier call returns the verdict the earlier call
\* returned (score, decision, detector results and explanation), whatever
\* the earlier calls left in the sink
C11_SameInputsSameVerdict ==
    (pc = "returned" /\ verdicts # <<>>) =>
        \A i \in 1..Len(verdicts) : verdicts[i] = response

\* a second call that passed the gate has returned, after the first call
\* wrote an alert
C11_Witness ==
    /\ pc = "returned"
    /\ Len(verdicts) = 1
    /\ verdicts[1].anomaly_detected
    /\ Len(alerts) = 2
    /\ Len(response.details) = 4

-----------------------------------------------------------------------------
(* The verdict's detector results and explanation *)

\* C12: every verdict returned by a call that passed the gate lists exactly
\* four detector results, in the order amount, quantity, timing, price,
\* whichever of them flagged, failed or found too little data.
C12_FourResultsInOrder ==
    (pc \in {"returned", "responded"} /\ exc = "" /\ PassesGate(window)) =>
        /\ "details" \in DOMAIN response
        /\ DOMAIN response.details = 1..4
        /\ [i \in 1..4 |-> response.details[i].check]
             = <<"amount", "quantity", "timing", "price">>

\* a verdict whose amount result flagged, whose timing result failed and
\* whose price result found too little data
C12_Witness ==
    /\ pc = "returned"
    /\ PassesGate(window)
    /\ response.details[1].is_anomaly
    /\ "error" \in DOMAIN response.details[3]
    /\ DOMAIN response.details[4] = {"check", "is_anomaly"}

\* how each detector's clause begins
ClauseStart ==
    <<"Unusual amount: ", "Unusual quantity: ", "Unusual timing: ",
      "Price deviation: ">>

\* the place of detector p among the flagged ones
RankAmongFlagged(p) == Cardinality({q \in FlaggedSet : q <= p})

\* C13: when anomaly_detected is set, the explanation is the prefix
\* 'Suspicious transaction detected: ', then one clause for each flagged
\* detector and none for an unflagged one, in the order amount, quantity,
\* timing, price, with ', ' between neighbouring clauses.
C13_ExplanationClauses ==
    (Scored /\ response.anomaly_detected) =>
        LET msg == response.message
            k == Cardinality(FlaggedSet)
        IN  /\ Len(msg) = 2 * k
            /\ msg[1] = [text |-> "Suspicious transaction detected: "]
            /\ \A p \in FlaggedSet :
                   msg[2 * RankAmongFlagged(p)].text = ClauseStart[p]
            /\ \A j \in 1..(k - 1) : msg[2 * j + 1] = [text |-> ", "]

\* an explanation with clauses for amount, timing and price and none for
\* the unflagged quantity detector
C13_Witness ==
    /\ pc = "returned"
    /\ response.anomaly_detected
    /\ FlaggedSet = {1, 3, 4}
    /\ Len(response.message) = 6
    /\ response.message[4].text = "Unusual timing: "

-----------------------------------------------------------------------------
(* Scoring and notification *)

\* C14 as stated: once the score is computed and anomaly_detected is set,
\* the call can return that verdict without a call to the sink.
C14_VerdictWithoutSinkCall ==
    pc = "alert" =>
        ENABLED (Next /\ pc' = "returned" /\ alerts' = alerts)

\* C14 as the code has it: a call returns a verdict with anomaly_detected
\* set only from the create_alert step, which has written one alert to the
\* sink; scoring and notification are one call.
C14_AnomalousVerdictNeedsSinkCall ==
    [][(pc # "returned" /\ pc' = "returned" /\ response'.anomaly_detected)
         => (pc = "alert" /\ Len(alerts') = Len(alerts) + 1)]_vars

\* an anomalous verdict with all four detectors flagged has been returned,
\* and the sink holds its alert
C14_Witness ==
    /\ pc = "returned"
    /\ response.anomaly_detected
    /\ Cardinality(FlaggedSet) = 4
    /\ alerts # <<>>

-----------------------------------------------------------------------------
(* The statistical detectors below their minimum *)

\* the rows of the window with a positive number in the field
PositiveIn(field) ==
    {i \in DOMAIN window :
        window[i][field].t = "num" /\ window[i][field].v > 0}

\* C15: in a call that passed the gate, the amount detector with fewer than
\* 10 positive historical amounts and the quantity detector with fewer than
\* 10 positive historical quantities each return is_anomaly false with no
\* evidence and no error note.
C15_BelowMinimumPlainResult ==
    Scored =>
        /\ Cardinality(PositiveIn("amount")) < MinAmounts
              => checks[1] = PlainResult("amount")
        /\ Cardinality(PositiveIn("quantity")) < MinQuantities
              => checks[2] = PlainResult("quantity")

-----------------------------------------------------------------------------
(* The timing detector on an empty window *)

\* C16: the timing detector has no minimum history size: called with an
\* empty window it flags every transaction whose hour is 23 or later or 5
\* or earlier, and no transaction whose hour is between 6 and 22.
C16_EmptyWindowFlagsOffHours ==
    (pc = "done_timing" /\ historical = <<>>) =>
        LET hour == transaction.created_at.hour
        IN  IF hour \in 6..22
            THEN ~checks[1].is_anomaly
            ELSE checks[1].is_anomaly

-----------------------------------------------------------------------------
(* The order of the window *)

-----------------------------------------------------------------------------
(* What a call leaves alone *)

\* C18: no step of analyze_transaction or of a detector changes the
\* transaction, the entities or a row of the window, the list the provider
\* returned stays as it is until the call ends, and a call starts with
\* nothing kept from the call before: its window, its results and its
\* response are fresh.
C18_InputsAndAgentUntouched ==
    /\ [][/\ transaction' = transaction
          /\ entities' = entities
          /\ historical' = historical
          /\ pc \in {"fetched", "alert"} => window' = window]_vars
    /\ [](pc = "start" =>
            (window = <<>> /\ checks = <<>> /\ response = InitialResponse))

\* a second call has run its detectors on the inputs of the first and
\* returned
C18_Witness ==
    /\ pc = "returned"
    /\ Len(verdicts) = 1
    /\ Len(checks) = 4
    /\ window = historical
    /\ transaction = TransactionData(entities, DateTime(2))

-----------------------------------------------------------------------------
(* The explanation when nothing is flagged *)

\* C20 as stated: the verdict of a call in which no detector flagged has
\* the explanation 'Transaction appears normal'.
C20_NormalSentenceWhenNoneFlagged ==
    (pc \in {"returned", "responded"} /\ exc = "" /\ Scored
        /\ FlaggedSet = {}) =>
        /\ "message" \in DOMAIN response
        /\ response.message = <<[text |-> "Transaction appears normal"]>>

\* C20 as the code has it: generate_risk_message gives 'Transaction appears
\* normal' for results without a flag, but analyze_transaction calls it
\* only with at least three flags, so every explanation in a response
\* begins with the 'Suspicious' prefix and the verdict of a call in which
\* no detector flagged has no explanation.
C20_NormalSentenceNeverInVerdict ==
    /\ (Scored /\ FlaggedSet = {}) =>
          /\ generate_risk_message(checks)
                = <<[text |-> "Transaction appears normal"]>>
          /\ "message" \notin DOMAIN response
    /\ "message" \in DOMAIN response =>
          /\ Cardinality(FlaggedSet) >= 3
          /\ response.message[1].text = "Suspicious transaction detected: "

\* a call that ran its detectors, none of which flagged, has returned
C20_Witness ==
    /\ pc = "returned"
    /\ Len(checks) = 4
    /\ FlaggedSet = {}
    /\ DOMAIN response
         = {"anomaly_detected", "risk_score", "alerts", "details"}

-----------------------------------------------------------------------------
(* One user's alert and the other users' analyses *)

\* C19: while the alert of one user's anomalous transaction is being
\* written, that user's score is already computed, and no other user's
\* request is held back: it is runnable, its fetch can be taken if it has
\* not fetched yet and its own alert write can complete if it has one
\* under way (the analysis step of a request that has fetched has no guard
\* but Runnable).
C19_AlertWriteBlocksNoOtherUser ==
    \A a \in Users :
        pc[a] = "alert" =>
            /\ response[a].anomaly_detected
            /\ 2 * response[a].risk_score.num > response[a].risk_score.den
            /\ \A b \in Users \ {a} :
                   /\ Runnable(b)
                   /\ pc[b] = "start" => ENABLED UserFetch(b)
                   /\ pc[b] = "alert" => ENABLED UserCreateAlert(b)

\* B has its scored verdict while A's alert is still being written
C19_Witness ==
    /\ pc["A"] = "alert"
    /\ pc["B"] = "returned"
    /\ Len(checks["B"]) = 4
    /\ "details" \in DOMAIN response["B"]
    /\ alerts = <<>>

-----------------------------------------------------------------------------
(* LiquidityAgent.process_transaction called on a collection of the user's
   transactions *)

MaxOldSales == 3

\* a stored transaction as the liquidity agent reads it
LiquidityRow(type, amt, day, created) ==
    [user_id |-> UserId, type |-> type, amount |-> amt, day |-> day,
     created_at |-> created]

\* the two newest rows of the last 30 days
RecentRows ==
    {LiquidityRow("purchase", Num(50), 0, IsoStr(9)),
     LiquidityRow("purchase", Num(30), 1, IsoStr(9)),
     LiquidityRow("sale", Num(50), 0, IsoStr(9)),
     LiquidityRow("unknown", Num(0), 0, IsoStr(9)),
     LiquidityRow("purchase", None, 1, IsoStr(9)),
     LiquidityRow("purchase", Num(50), 0, DateTime(9))}

\* the other rows of the last 30 days
FillerRows ==
    {LiquidityRow("purchase", Num(10), 2, IsoStr(9)),
     LiquidityRow("sale", Num(10), 2, IsoStr(9)),
     LiquidityRow("unknown", Num(0), 2, IsoStr(9))}

\* a sale between 30 and 90 days ago
OldSale == LiquidityRow("sale", Num(100), 40, IsoStr(9))

LiquidityEntities ==
    {[type |-> Str("sale"), item |-> Str("rice"), quantity |-> Num(10),
      amount |-> Num(100)],
     [type |-> Str("purchase"), item |-> Str("rice"), quantity |-> Num(10),
      amount |-> Num(100)],
     [type |-> Str("purchase"), item |-> Str("rice"), quantity |-> Num(10),
      amount |-> None]}

InitLiquidity ==
    /\ \E n \in 4..6, a \in RecentRows, b \in RecentRows, c \in FillerRows,
          k \in 0..MaxOldSales :
          historical = History(n, <<a, b>>, c) \o [i \in 1..k |-> OldSale]
    /\ entities \in LiquidityEntities
    /\ transaction = TransactionData(entities, IsoStr(9))
    /\ pc = "call_liquidity"
    /\ Idle

\* process_transaction returns its response; create_liquidity_alert has
\* stored the alert by then
LiquidityProcess ==
    /\ pc = "call_liquidity"
    /\ ~CashImpactRaises(entities)
    /\ LET result == LiquidityResponse(entities, historical)
       IN  /\ response' = result
           /\ alerts' = IF result.alert = None THEN alerts
                        ELSE Append(alerts,
                                    AlertDoc(UserId, "liquidity_crunch",
                                             result.alert.message,
                                             result.alert.severity))
    /\ pc' = "done_liquidity"
    /\ UNCHANGED <<pipe, verdicts, historical, transaction, entities,
                   forest, exc, window, checks, http>>

\* the cash impact of a purchase without an amount raises before anything
\* is predicted
LiquidityProcessRaises ==
    /\ pc = "call_liquidity"
    /\ CashImpactRaises(entities)
    /\ exc' = "liquidity"
    /\ pc' = "raised"
    /\ UNCHANGED <<pipe, verdicts, historical, transaction, entities,
                   forest, window, checks, response, alerts, http>>

NextLiquidity == LiquidityProcess \/ LiquidityProcessRaises

SpecLiquidity == InitLiquidity /\ [][NextLiquidity]_vars

\* C21: whenever process_transaction has returned and the predicted days
\* until the crunch are at most 7, 0 included, a liquidity alert is stored,
\* and for 0 days it has severity 'critical'
C21_AlertWheneverCrunchWithinThreshold ==
    LET prediction == predict_liquidity_crunch(historical)
    IN  (/\ pc = "done_liquidity"
         /\ prediction.days_until_crunch # None
         /\ prediction.days_until_crunch.v <= AlertThresholdDays)
        => /\ Len(alerts) = 1
           /\ alerts[1].type = "liquidity_crunch"
           /\ prediction.days_until_crunch.v = 0
              => alerts[1].severity = "critical"
-----------------------------------------------------------------------------
(* The alerts collection after a sequence of calls *)

\* the documents of one type in the alerts collection
AlertsOfType(alert_type) ==
    SelectSeq(alerts, LAMBDA doc : doc.type = alert_type)

\* the calls so far that returned a verdict with anomaly_detected true
AnomalousReturns ==
    Len(SelectSeq(verdicts, LAMBDA v : v.anomaly_detected))
    + (IF pc \in {"returned", "responded"} /\ exc = ""
          /\ response.anomaly_detected
       THEN 1 ELSE 0)

\* C25: between the steps of a call and after it, the number of
\* 'fraud_risk' alerts in the collection equals the number of calls that
\* returned a verdict with anomaly_detected true; nothing is deduplicated
C25_OneAlertPerAnomalousReturn ==
    pc # "alert" => Len(AlertsOfType("fraud_risk")) = AnomalousReturns

\* the same anomalous transaction analysed twice has left two equal alerts
C25_Witness ==
    /\ pc = "returned"
    /\ Len(verdicts) = 1
    /\ verdicts[1] = response
    /\ response.anomaly_detected
    /\ Len(AlertsOfType("fraud_risk")) = 2
    /\ alerts[1] = alerts[2]
-----------------------------------------------------------------------------
(* The price detector on a window with a transaction stored without item *)

\* the window holds a transaction whose item is null
HasNullItemRow(hist) == \E i \in 1..Len(hist) : hist[i].item = None

\* the rows of the window that name an item
NamedRows(hist) == SelectSeq(hist, LAMBDA txn : txn.item # None)

\* C27: when the entities name an item and the window holds at least one
\* transaction whose item is null, the price detector returns is_anomaly
\* false together with an error note, whatever the prices of the other rows
C27_NullItemRowSilencesPrice ==
    (/\ pc = "done_price"
     /\ Truthy(Get(entities.item, None))
     /\ HasNullItemRow(historical))
    => /\ checks[1].check = "price"
       /\ checks[1].is_anomaly = FALSE
       /\ "error" \in DOMAIN checks[1]

\* the other rows alone give three prices of 10 against a current price of
\* 30, a deviation of 200 percent
C27_Witness ==
    /\ pc = "done_price"
    /\ entities.item = Str("rice")
    /\ entities.quantity = Num(1)
    /\ transaction.amount = Num(30)
    /\ HasNullItemRow(historical)
    /\ Len(NamedRows(historical)) = 3
    /\ \A i \in 1..3 : NamedRows(historical)[i] = Row(Str("rice"), Num(1), Num(10), IsoStr(9))
    /\ check_price_deviation(transaction, NamedRows(historical), entities).is_anomaly
    /\ "error" \in DOMAIN checks[1]
-----------------------------------------------------------------------------
(* One request through the pipeline: create_manual_transaction or
   process_voice_transaction store the transaction and route it to the
   supply-chain, liquidity and risk agents.  Here `historical` is the
   user's part of the transactions collection, newest first, and
   `inventory` is the quantity of the inventory document of the item the
   request names, Missing when there is none. *)

\* Config.LOW_STOCK_THRESHOLD
LowStockThreshold == 10

\* analyze_transaction: start_date = end_date - timedelta(days=60)
RiskWindowDays == 60

\* requests the client sends in one run
MaxRequests == 2

\* d with d[k] = v
With(d, k, v) == [x \in DOMAIN d \cup {k} |-> IF x = k THEN v ELSE d[x]]

\* MongoDBService.create_transaction: the document inserted and returned;
\* created_at is a datetime
StoredTransaction(ents, hour) ==
    [user_id |-> UserId,
     type |-> Get(ents.type, Str("unknown")).s,
     item |-> Get(ents.item, None),
     quantity |-> Get(ents.quantity, Num(0)),
     amount |-> Get(ents.amount, Num(0)),
     created_at |-> DateTime(hour),
     day |-> 0]

\* a document stored by an earlier request, `day` days ago
StoredRow(type, item, qty, amt, hour, day) ==
    [user_id |-> UserId, type |-> type, item |-> item, quantity |-> qty,
     amount |-> amt, created_at |-> DateTime(hour), day |-> day]

\* --- SupplyChainAgent ---

\* not quantity
FalsyNumber(x) == ~(IsNum(x) /\ x.v # 0)

\* process_transaction returns its initial response
SupplySkips(ents) ==
    \/ ~Truthy(Get(ents.item, None))
    \/ FalsyNumber(Get(ents.quantity, Num(0)))
    \/ Get(ents.type, None) \notin {Str("sale"), Str("purchase")}

\* qty_change
QtyChange(ents) ==
    IF ents.type = Str("sale") THEN -ents.quantity.v ELSE ents.quantity.v

\* MongoDBService.update_inventory: $inc on the document found, or a new
\* document with max(0, quantity_change)
update_inventory(inv, quantity_change) ==
    IF inv = Missing
    THEN Num(IF quantity_change > 0 THEN quantity_change ELSE 0)
    ELSE Num(inv.v + quantity_change)

\* detect_dead_stock: the item is in stock and no transaction of the last
\* 30 days sold it
DeadStock(inv, item, txns) ==
    LET rows == Within(txns, PredictionWindowDays)
        sold == {Lower(rows[i].item.s) :
                    i \in {j \in 1..Len(rows) :
                              rows[j].type = "sale" /\ Truthy(rows[j].item)}}
    IN  inv.v > 0 /\ Lower(item.s) \notin sold

\* the dict create_low_stock_alert returns
LowStockAlert(item, qty) ==
    [type |-> "low_stock", item |-> item, quantity |-> qty,
     message |-> [item |-> item, units_left |-> qty]]

\* the dict SupplyChainAgent.process_transaction returns
SupplyResponse(ents, inv, txns) ==
    IF SupplySkips(ents)
    THEN [inventory_updated |-> FALSE, alerts |-> <<>>]
    ELSE LET updated == update_inventory(inv, QtyChange(ents))
             base == [inventory_updated |-> TRUE,
                      alerts |-> IF updated.v <= LowStockThreshold
                                 THEN <<LowStockAlert(ents.item, updated)>>
                                 ELSE <<>>]
         IN  IF DeadStock(updated, ents.item, txns)
             THEN With(base, "dead_stock_warning",
                       <<[item |-> ents.item, quantity |-> updated,
                          days_idle |-> 30]>>)
             ELSE base

\* --- MongoDBService.get_user as route_to_agents uses it ---

\* ObjectId(user_id) raises for a user_id that is no ObjectId
InvalidUserId == [t |-> "invalid_id"]

\* the users document
UserDoc(phone) == [t |-> "dict", phone |-> phone]

\* user.get('phone') is truthy
HasPhone(user) == user.t = "dict" /\ Truthy(Get(user.phone, None))

\* get_user or user.get raises
UserLookupRaises(user) == user.t # "dict"

\* the message handed to send_whatsapp_message for a fraud alert
FraudMessage(user, resp) ==
    [to |-> user.phone, prefix |-> "ALERT: ", message |-> resp.message]

\* the message handed to send_whatsapp_message for a liquidity alert
LiquidityMessage(user, resp) ==
    [to |-> user.phone, message |-> resp.alert.message]

\* --- inputs ---

PipelineSizes == {0, 4} \cup ((MinHistory - 2)..(MaxHist - 1))

UsualRow == StoredRow("sale", Str("rice"), Num(10), Num(100), 9, 1)

\* the newest document of the earlier requests
PipelineNewest ==
    {UsualRow,
     StoredRow("unknown", None, Num(0), Num(50), 9, 1)}

\* a document older than every window but the 90 days of the cash summary
OldRow == StoredRow("sale", Str("rice"), Num(10), Num(100), 9, 70)

PipelineEntities ==
    {[type |-> Str("sale"), item |-> Str("rice"), quantity |-> Num(10),
      amount |-> Num(100)],
     [type |-> Str("sale"), item |-> Str("rice"), quantity |-> Num(40),
      amount |-> Num(800)],
     [type |-> Str("purchase"), item |-> Str("rice"), quantity |-> Num(40),
      amount |-> Num(800)],
     [type |-> Str("purchase"), item |-> Str("rice"), quantity |-> Num(10),
      amount |-> None],
     [type |-> Str("unknown"), item |-> Str("rice"), quantity |-> Num(10),
      amount |-> Num(100)],
     [type |-> Str("sale"), item |-> Missing, quantity |-> Missing,
      amount |-> Num(100)]}

UserRecords == {InvalidUserId, None, UserDoc(Missing), UserDoc(Str("+91"))}

Inventories == {Missing, Num(45)}

StoreHours == {2, 9}

InitPipeline ==
    /\ \E n \in PipelineSizes, a \in PipelineNewest, k \in 0..1 :
          historical = History(n, <<a>>, UsualRow) \o [i \in 1..k |-> OldRow]
    /\ entities \in PipelineEntities
    /\ transaction = None
    /\ forest \in ForestOutcomes
    /\ users \in UserRecords
    /\ inventory \in Inventories
    /\ requests = 1
    /\ whatsapp = <<>>
    /\ responses = EmptyDict
    /\ exc = ""
    /\ pc = "request"
    /\ window = <<>>
    /\ checks = <<>>
    /\ response = InitialResponse
    /\ alerts = <<>>
    /\ http = [status |-> 0]
    /\ verdicts = <<>>

\* --- the steps of the request ---

\* a handler that analyses the transaction without inserting it
StoreTransaction_NotInserted ==
    /\ pc = "request"
    /\ \E hour \in StoreHours :
          transaction' = StoredTransaction(entities, hour)
    /\ pc' = "stored"
    /\ UNCHANGED <<historical, entities, forest, exc, window, checks,
                   response, alerts, http, verdicts, pipe>>

\* transaction = await db_service.create_transaction(user_id, entities,
\* text), for a request that has user_id and text
StoreTransaction ==
    /\ pc = "request"
    /\ \E hour \in StoreHours :
          transaction' = StoredTransaction(entities, hour)
    /\ historical' = <<transaction'>> \o historical
    /\ pc' = "stored"
    /\ UNCHANGED <<entities, forest, exc, window, checks, response, alerts,
                   http, verdicts, pipe>>

\* route_to_agents, step 1: the supply-chain agent, only for entities with
\* an item
SupplyChain ==
    /\ pc = "stored"
    /\ IF Truthy(Get(entities.item, None))
       THEN LET result == SupplyResponse(entities, inventory, historical)
            IN  /\ responses' = With(responses, "supply_chain", result)
                /\ inventory' = IF SupplySkips(entities) THEN inventory
                                ELSE update_inventory(inventory,
                                                      QtyChange(entities))
                /\ alerts' = IF result.alerts = <<>> THEN alerts
                             ELSE Append(alerts,
                                         AlertDoc(UserId, "low_stock",
                                                  result.alerts[1].message,
                                                  "medium"))
       ELSE UNCHANGED <<responses, inventory, alerts>>
    /\ pc' = "supplied"
    /\ UNCHANGED <<historical, transaction, entities, forest, exc, window,
                   checks, response, http, verdicts, whatsapp, users,
                   requests>>

\* route_to_agents, step 2: the liquidity agent
Liquidity ==
    /\ pc = "supplied"
    /\ ~CashImpactRaises(entities)
    /\ LET result == LiquidityResponse(entities, historical)
       IN  /\ responses' = With(responses, "liquidity", result)
           /\ alerts' = IF result.alert = None THEN alerts
                        ELSE Append(alerts,
                                    AlertDoc(UserId, "liquidity_crunch",
                                             result.alert.message,
                                             result.alert.severity))
    /\ pc' = "routed"
    /\ UNCHANGED <<historical, transaction, entities, forest, exc, window,
                   checks, response, http, verdicts, inventory, whatsapp,
                   users, requests>>

\* the liquidity agent raises on a purchase whose amount is None
LiquidityRaises ==
    /\ pc = "supplied"
    /\ CashImpactRaises(entities)
    /\ exc' = "liquidity"
    /\ pc' = "raised"
    /\ UNCHANGED <<historical, transaction, entities, forest, window, checks,
                   response, alerts, http, verdicts, pipe>>

\* route_to_agents, step 3: risk_agent.analyze_transaction is called
CallRisk ==
    /\ pc = "routed"
    /\ pc' = "start"
    /\ UNCHANGED <<historical, transaction, entities, forest, exc, window,
                   checks, response, alerts, http, verdicts, pipe>>

\* get_transactions_range(user_id, now - 60 days, now) on the collection
FetchWindow ==
    /\ pc = "start"
    /\ window' = Within(historical, RiskWindowDays)
    /\ pc' = "fetched"
    /\ UNCHANGED <<pipe, verdicts, historical, transaction, entities,
                   forest, exc, checks, response, alerts, http>>

\* a route that messages the user about every verdict that has a message
Communicate_AnyVerdict ==
    /\ pc = "returned"
    /\ responses' = With(responses, "risk", response)
    /\ whatsapp' = IF HasPhone(users)
                   THEN Append(whatsapp,
                               [to |-> users.phone, prefix |-> "ALERT: ",
                                message |-> <<>>])
                   ELSE whatsapp
    /\ pc' = "communicated"
    /\ exc' = exc
    /\ UNCHANGED <<historical, transaction, entities, forest, window, checks,
                   response, alerts, http, verdicts, inventory, users,
                   requests>>

\* route_to_agents, step 4: responses['risk'] is set, then the WhatsApp
\* messages for a liquidity alert and for an anomalous verdict
Communicate ==
    /\ pc = "returned"
    /\ responses' = With(responses, "risk", response)
    /\ LET liquidity_alert == responses.liquidity.alert # None
           anomaly == response.anomaly_detected
           first == IF liquidity_alert /\ HasPhone(users)
                    THEN <<LiquidityMessage(users, responses.liquidity)>>
                    ELSE <<>>
       IN  IF (liquidity_alert \/ anomaly) /\ UserLookupRaises(users)
           THEN /\ exc' = IF users = InvalidUserId THEN "InvalidId"
                          ELSE "AttributeError"
                /\ pc' = "raised"
                /\ whatsapp' = whatsapp
           ELSE IF anomaly /\ HasPhone(users)
                   /\ "message" \notin DOMAIN response
           THEN /\ exc' = "KeyError"
                /\ pc' = "raised"
                /\ whatsapp' = whatsapp \o first
           ELSE /\ exc' = exc
                /\ pc' = "communicated"
                /\ whatsapp' =
                      whatsapp \o first \o
                      (IF anomaly /\ HasPhone(users)
                       THEN <<FraudMessage(users, response)>>
                       ELSE <<>>)
    /\ UNCHANGED <<historical, transaction, entities, forest, window, checks,
                   response, alerts, http, verdicts, inventory, users,
                   requests>>

\* the handler's jsonify of entities, transaction id and agent responses
PipelineRespond ==
    /\ pc = "communicated"
    /\ http' = IF Serializable(responses.risk)
               THEN [status |-> 200, agent_actions |-> responses]
               ELSE [status |-> 500, error |-> "TypeError"]
    /\ pc' = "responded"
    /\ UNCHANGED <<historical, transaction, entities, forest, exc, window,
                   checks, response, alerts, verdicts, pipe>>

\* the client sends the request again after an error answer: a new
\* request with the same text, whose locals are fresh
Retry ==
    /\ pc = "responded"
    /\ http.status = 500
    /\ requests < MaxRequests
    /\ requests' = requests + 1
    /\ pc' = "request"
    /\ transaction' = None
    /\ exc' = ""
    /\ window' = <<>>
    /\ checks' = <<>>
    /\ response' = InitialResponse
    /\ responses' = EmptyDict
    /\ http' = [status |-> 0]
    /\ UNCHANGED <<historical, entities, forest, alerts, verdicts, inventory,
                   whatsapp, users>>

NextPipeline == \/ StoreTransaction
                \/ SupplyChain
                \/ Liquidity
                \/ LiquidityRaises
                \/ CallRisk
                \/ FetchWindow
                \/ GetTransactionsRangeRaises
                \/ GateReturn
                \/ Analyze
                \/ CreateAlert
                \/ CreateAlertRaises
                \/ Communicate
                \/ PipelineRespond
                \/ HttpError
                \/ Retry

SpecPipeline == InitPipeline /\ [][NextPipeline]_vars
-----------------------------------------------------------------------------
(* The window of a request in the pipeline *)

\* the user's transactions of the trailing 60 days other than the one the
\* request stored
OtherTransactions == Within(Tail(historical), RiskWindowDays)

\* analyze_transaction has fetched its window and not raised
AfterFetch == pc \in {"fetched", "alert", "returned", "communicated"}

\* analyze_transaction has returned
AfterAnalysis == pc \in {"returned", "communicated"}

\* C22: in the pipeline the window analyze_transaction fetches contains the
\* transaction under analysis, stored before the agents were called, and
\* the detectors have run if and only if the user has at least 9 other
\* transactions in the trailing 60 days
C22_WindowHoldsTransactionGateCountsIt ==
    /\ AfterFetch =>
          /\ window # <<>>
          /\ window[1] = transaction
          /\ Tail(window) = OtherTransactions
    /\ AfterAnalysis =>
          (Len(checks) = 4 <=> Len(OtherTransactions) >= MinHistory - 1)

\* the detectors ran for a user with exactly 9 other transactions in the
\* 60 days and one older transaction
C22_Witness ==
    /\ pc = "returned"
    /\ Len(checks) = 4
    /\ Len(OtherTransactions) = MinHistory - 1
    /\ Len(historical) = MinHistory + 1
    /\ historical[Len(historical)] = OldRow
-----------------------------------------------------------------------------
(* The timing detector in the pipeline *)

\* the hours of the transactions in the window
WindowHours == {window[i].created_at.hour : i \in 1..Len(window)}

\* C23: in the pipeline the timing detector never flags, and the hour of
\* the stored transaction is among the hours of the window; so the risk
\* score never reaches 1 and a transaction is escalated only when the
\* amount, quantity and price detectors all flag
C23_TimingNeverFlagsInPipeline ==
    Len(checks) = 4 =>
        /\ checks[3].check = "timing"
        /\ checks[3].is_anomaly = FALSE
        /\ transaction.created_at.hour \in WindowHours
        /\ RiskScore(checks).num < RiskScore(checks).den
        /\ pc \in {"alert", "returned", "communicated"} =>
              /\ response.risk_score = RiskScore(checks)
              /\ response.anomaly_detected => FlaggedSet = {1, 2, 4}

\* a transaction stored at 2 o'clock, an hour none of the user's other
\* transactions has, was escalated by the three other detectors
C23_Witness ==
    /\ pc = "returned"
    /\ response.anomaly_detected
    /\ FlaggedSet = {1, 2, 4}
    /\ OffHours(transaction.created_at.hour)
    /\ \A i \in 2..Len(window) :
          window[i].created_at.hour # transaction.created_at.hour
-----------------------------------------------------------------------------
(* The explanation route_to_agents reads *)

\* the verdict has the key 'message' exactly when it is anomalous
MessageIffAnomaly(verdict) ==
    "message" \in DOMAIN verdict <=> verdict.anomaly_detected

\* C24: a verdict analyze_transaction returned carries 'message' if and
\* only if its anomaly_detected is true, so the read of
\* risk_response['message'] in route_to_agents never raises KeyError
C24_MessageExactlyWhenAnomalous ==
    /\ AfterAnalysis => MessageIffAnomaly(response)
    /\ "risk" \in DOMAIN responses => MessageIffAnomaly(responses.risk)
    /\ exc # "KeyError"

\* route_to_agents has read the explanation of an anomalous verdict into a
\* WhatsApp message
C24_Witness ==
    /\ pc = "communicated"
    /\ responses.risk.anomaly_detected
    /\ Len(whatsapp) = 1
    /\ whatsapp[1].message = responses.risk.message
    /\ whatsapp[1].message # <<>>

-----------------------------------------------------------------------------
(* The WhatsApp fraud message and the order of the agents *)

\* the messages a step hands to send_whatsapp_message
NewMessages == SubSeq(whatsapp', Len(whatsapp) + 1, Len(whatsapp'))

\* the message is a fraud message
IsFraudMessage(m) == "prefix" \in DOMAIN m

\* analyze_transaction is running or has just returned
InRiskAnalysis == pc \in {"start", "fetched", "alert", "returned"}

\* C29: in route_to_agents a WhatsApp fraud message is sent only for a
\* verdict with anomaly_detected true and a user with a phone; when it is
\* sent the alerts collection already holds the 'fraud_risk' alert with
\* the same explanation; and the risk analysis runs only after the
\* liquidity agent and, for entities with an item, the supply-chain agent
\* have answered
C29_FraudMessageAfterAlertRiskLast ==
    /\ [][\A i \in 1..Len(NewMessages) :
             IsFraudMessage(NewMessages[i]) =>
                /\ pc = "returned"
                /\ response.anomaly_detected
                /\ HasPhone(users)
                /\ NewMessages[i].to = users.phone
                /\ NewMessages[i].message = response.message
                /\ \E j \in 1..Len(alerts) :
                      /\ alerts[j].type = "fraud_risk"
                      /\ alerts[j].user_id = UserId
                      /\ alerts[j].message = NewMessages[i].message]_vars
    /\ [](InRiskAnalysis =>
             /\ "liquidity" \in DOMAIN responses
             /\ "risk" \notin DOMAIN responses
             /\ Truthy(Get(entities.item, None)) =>
                   "supply_chain" \in DOMAIN responses)

\* a fraud message went to the user's phone after the supply-chain and the
\* liquidity agent answered and the alert was stored
C29_Witness ==
    /\ pc = "communicated"
    /\ DOMAIN responses = {"supply_chain", "liquidity", "risk"}
    /\ HasPhone(users)
    /\ response.anomaly_detected
    /\ whatsapp = <<FraudMessage(users, response)>>
    /\ alerts # <<>>
    /\ alerts[Len(alerts)].type = "fraud_risk"
    /\ alerts[Len(alerts)].message = whatsapp[1].message
-----------------------------------------------------------------------------
(* A request whose risk analysis raises *)

\* what analyze_transaction raises: the query of the window or the insert
\* of the alert
RiskFailures == {"provider", "sink"}

\* the two documents differ at most in their timestamp
SameDocument(a, b) == [a EXCEPT !.created_at = b.created_at] = b

\* the supply-chain agent changed the inventory for these entities
ChangesInventory(ents) ==
    Truthy(Get(ents.item, None)) /\ ~SupplySkips(ents)

\* the inventory after n requests with these entities
RECURSIVE InventoryAfter(_, _, _)
InventoryAfter(inv, ents, n) ==
    IF n = 0 THEN inv
    ELSE InventoryAfter(update_inventory(inv, QtyChange(ents)), ents, n - 1)

\* C26: when the risk analysis raises, the steps from the raise to the
\* answer leave the transactions collection and the inventory as they
\* are, the request is answered with an error, the transaction it stored
\* and its inventory change are still there, and each request sent,
\* retries included, has stored a transaction of its own
C26_NoRollbackRetryStoresAgain ==
    /\ [][(pc' = "raised" \/ pc = "raised") /\ exc' \in RiskFailures =>
             /\ historical' = historical
             /\ inventory' = inventory]_vars
    /\ []((pc = "responded" /\ exc \in RiskFailures) =>
             /\ http.status = 500
             /\ Len(historical) >= requests
             /\ historical[1] = transaction
             /\ \A i \in 1..requests : SameDocument(historical[i], transaction)
             /\ ChangesInventory(entities) =>
                   \E inv \in Inventories :
                      inventory = InventoryAfter(inv, entities, requests))

\* the risk analysis raised in a request and in its retry: the collection
\* holds the transaction twice and the inventory changed twice
C26_Witness ==
    /\ pc = "responded"
    /\ exc \in RiskFailures
    /\ http.status = 500
    /\ requests = 2
    /\ SameDocument(historical[2], historical[1])
    /\ ChangesInventory(entities)
    /\ inventory = InventoryAfter(Num(45), entities, 2)
-----------------------------------------------------------------------------
(* Two users on one transactions collection and one alerts collection.
   Here `historical` is the whole collection, newest first, each document
   with the user_id it was stored under; the variables of a request are
   functions of the user, as are the verdicts a user got so far and the
   number of requests a user sent. *)

\* requests one user sends in one run
MaxUserRequests == 2

\* the documents of user u, in the order of the collection
OwnRows(u) == SelectSeq(historical, LAMBDA doc : doc.user_id = u)

\* the entities of a user's requests
IsolationEntities ==
    { [type |-> Str("sale"), item |-> Str("rice"), quantity |-> Num(40),
       amount |-> Num(800)],
      [type |-> Str("sale"), item |-> Str("rice"), quantity |-> Num(10),
       amount |-> Num(100)] }

\* the documents a user has before the first request
IsolationSizes == {MinHistory - 2, MinHistory}

InitIsolation ==
    /\ \E n \in [Users -> IsolationSizes] :
          historical =
             [i \in 1..n["A"] |-> OwnedBy("A", UsualRow)]
             \o [i \in 1..n["B"] |-> OwnedBy("B", UsualRow)]
    /\ entities \in [Users -> IsolationEntities]
    /\ transaction = [u \in Users |-> None]
    /\ \E oracle \in {"inlier", "outlier"} :
          forest = [u \in Users |-> IF u = "A" THEN oracle ELSE "outlier"]
    /\ exc = [u \in Users |-> ""]
    /\ pc = [u \in Users |-> "request"]
    /\ window = [u \in Users |-> <<>>]
    /\ checks = [u \in Users |-> <<>>]
    /\ response = [u \in Users |-> InitialResponse]
    /\ alerts = <<>>
    /\ http = [status |-> 0]
    /\ verdicts = [u \in Users |-> <<>>]
    /\ inventory = Missing
    /\ whatsapp = <<>>
    /\ responses = EmptyDict
    /\ users = None
    /\ requests = [u \in Users |-> 1]

\* create_transaction(user_id, entities, text): the document goes into the
\* one collection under the user's id, here at the hour of the user's
\* other documents
IsolationStore(u) ==
    /\ pc[u] = "request"
    /\ transaction' =
          [transaction EXCEPT ![u] =
              OwnedBy(u, StoredTransaction(entities[u],
                                           UsualRow.created_at.hour))]
    /\ historical' = <<transaction'[u]>> \o historical
    /\ pc' = [pc EXCEPT ![u] = "start"]
    /\ UNCHANGED <<entities, forest, exc, window, checks, response, alerts,
                   http, verdicts, pipe>>

\* a query of the window without the user_id
IsolationFetch_AllUsers(u) ==
    /\ pc[u] = "start"
    /\ window' = [window EXCEPT ![u] = historical]
    /\ pc' = [pc EXCEPT ![u] = "fetched"]
    /\ UNCHANGED <<pipe, verdicts, historical, transaction, entities,
                   forest, exc, checks, response, alerts, http>>

\* get_transactions_range: find({'user_id': user_id, 'created_at': ...})
IsolationFetch(u) ==
    /\ pc[u] = "start"
    /\ window' = [window EXCEPT ![u] = OwnRows(u)]
    /\ pc' = [pc EXCEPT ![u] = "fetched"]
    /\ UNCHANGED <<pipe, verdicts, historical, transaction, entities,
                   forest, exc, checks, response, alerts, http>>

\* the user has the verdict and sends the next request
IsolationNextRequest(u) ==
    /\ pc[u] = "returned"
    /\ requests[u] < MaxUserRequests
    /\ requests' = [requests EXCEPT ![u] = requests[u] + 1]
    /\ verdicts' = [verdicts EXCEPT ![u] = Append(verdicts[u], response[u])]
    /\ pc' = [pc EXCEPT ![u] = "request"]
    /\ window' = [window EXCEPT ![u] = <<>>]
    /\ checks' = [checks EXCEPT ![u] = <<>>]
    /\ response' = [response EXCEPT ![u] = InitialResponse]
    /\ UNCHANGED <<historical, transaction, entities, forest, exc, alerts,
                   http, inventory, whatsapp, responses, users>>

IsolationNext(u) == \/ IsolationStore(u)
                    \/ IsolationFetch(u)
                    \/ UserGateReturn(u)
                    \/ UserAnalyze(u)
                    \/ UserCreateAlert(u)
                    \/ IsolationNextRequest(u)

NextIsolation == \E u \in Users : IsolationNext(u)

SpecIsolation == InitIsolation /\ [][NextIsolation]_vars

\* the verdict analyze_transaction gives on a user's own documents
OwnVerdict(u) ==
    IF ~PassesGate(OwnRows(u))
    THEN InitialResponse
    ELSE LET chks == RunChecks(transaction[u], OwnRows(u), entities[u],
                               forest[u])
         IN  WithDetails(Aggregate(chks), chks)

\* the 'fraud_risk' alerts stored for user u
FraudAlertsFor(u) ==
    SelectSeq(alerts, LAMBDA doc : doc.user_id = u /\ doc.type = "fraud_risk")

\* the anomalous verdicts user u got
AnomalousVerdictsOf(u) ==
    Len(SelectSeq(verdicts[u], LAMBDA v : v.anomaly_detected))
    + (IF pc[u] = "returned" /\ response[u].anomaly_detected THEN 1 ELSE 0)

\* the step is taken by a request of a user other than u
StepOfAnother(u) == \E v \in Users \ {u} : pc'[v] # pc[v]

\* C28: the window of a user's analysis holds exactly that user's
\* documents and the verdict is the one the user's own documents give;
\* a step in which another user stores or analyses a transaction changes
\* neither the user's window, detector results and verdict nor the alerts
\* stored for the user, whose number is the number of the user's own
\* anomalous verdicts
C28_PerUserIsolation ==
    /\ [](\A u \in Users :
             /\ pc[u] \in {"fetched", "alert", "returned"} =>
                   window[u] = OwnRows(u)
             /\ pc[u] = "returned" => response[u] = OwnVerdict(u)
             /\ pc[u] # "alert" =>
                   Len(FraudAlertsFor(u)) = AnomalousVerdictsOf(u))
    /\ [][\A u \in Users :
             StepOfAnother(u) =>
                /\ window'[u] = window[u]
                /\ checks'[u] = checks[u]
                /\ response'[u] = response[u]
                /\ OwnRows(u)' = OwnRows(u)
                /\ FraudAlertsFor(u)' = FraudAlertsFor(u)]_vars

\* A has an anomalous verdict and its alert, B has stored and analysed two
\* transactions in the meantime and has its own alert
C28_Witness ==
    /\ pc["A"] = "returned"
    /\ response["A"].anomaly_detected
    /\ requests["B"] = 2
    /\ pc["B"] = "returned"
    /\ Len(OwnRows("B")) = MinHistory + 2
    /\ Len(FraudAlertsFor("A")) = 1
    /\ Len(FraudAlertsFor("B")) = 1
====
